---- MODULE Spec2Model ----
(***************************************************************************)
(* Model of erdtree's Tree (src/src/fs/erdtree/tree/mod.rs): the walker    *)
(* workers send Node records over an unbounded channel, one consumer       *)
(* thread aggregates them into (root, branches), the main thread joins,    *)
(* assembles the tree and the Display impl renders it.                     *)
(***************************************************************************)
EXTENDS Integers, Sequences, FiniteSets, TLC

\* ------------------------------------------------------------------ bounds
\* Largest number of filesystem entries below and including the walk root.
MaxEntries == 4
\* Largest number of entries for which the walker hands the callback an Err.
MaxFailed == 1
\* Largest number of times the built tree is rendered.
MaxRenders == 2
\* Largest number of entries of the walks checked under fair scheduling.
MaxFairEntries == 3

\* --------------------------------------------------------- Option<T> values
None == <<>>
Some(v) == <<v>>
Unwrap(o) == o[1]
UnwrapOr(o, d) == IF o = None THEN d ELSE o[1]

\* ------------------------------------------------------- program constants
SEP == "SEP"
VT == "VT"
UPRT == "UPRT"
VTRT == "VTRT"

\* ------------------------------------------------------------ Node records
\* A path is the sequence of its components; the empty sequence is a path
\* without a parent (a filesystem root).
Node(path, depth, dir, file_size) ==
    [path |-> path, depth |-> depth, dir |-> dir,
     file_size |-> file_size, children |-> None]

\* Node::parent_path_buf: the path minus its final component, if any.
ParentPathBuf(node) ==
    IF Len(node.path) = 0 THEN None
    ELSE Some(SubSeq(node.path, 1, Len(node.path) - 1))

\* Node::file_name as the comparators read it: the final component.
FileName(node) ==
    IF Len(node.path) = 0 THEN 0 ELSE node.path[Len(node.path)]

\* ------------------------------------------------------ ordering policies
Orders == {"None", "Filename", "Size"}

\* The comparator's verdict on (a, b): -1 Less, 0 Equal, 1 Greater.
\* Filename orders by name ascending, Size by size descending.
Compare(order, a, b) ==
    IF order = "Filename"
    THEN (IF FileName(a) < FileName(b) THEN -1
          ELSE IF FileName(a) > FileName(b) THEN 1 ELSE 0)
    ELSE LET sa == UnwrapOr(a.file_size, 0)
             sb == UnwrapOr(b.file_size, 0)
         IN IF sb < sa THEN -1 ELSE IF sb > sa THEN 1 ELSE 0

\* Order::comparator: no comparator for Order::None.
HasComparator(order) == order # "None"

\* ------------------------------------------------ the walked directory tree
\* Entries are named by their path relative to the walk root; the children
\* of a directory are named 1, 2, ... without gaps.
ChildrenOf(S, q) ==
    {p \in S : Len(p) = Len(q) + 1 /\ SubSeq(p, 1, Len(q)) = q}

Grow(S) ==
    {S \cup {Append(q, Cardinality(ChildrenOf(S, q)) + 1)} : q \in S}

RECURSIVE ShapesOf(_)
ShapesOf(n) ==
    IF n <= 1 THEN {{<<>>}}
    ELSE LET prev == ShapesOf(n - 1)
         IN prev \cup UNION {Grow(S) : S \in prev}

Shapes == ShapesOf(MaxEntries)

FileSizes == {0, 5}
DirKind == [dir |-> TRUE, file_size |-> None]
Kinds == {DirKind} \cup {[dir |-> FALSE, file_size |-> Some(s)] : s \in FileSizes}

\* The walk root's own path: "root", or a path without a parent.
RootPath == <<0>>
Bases == {RootPath, <<>>}

\* The entries of the round trip scenario: root, root/a (10), root/b, root/b/c (5).
RoundTripEntries ==
    {Node(RootPath, 0, TRUE, None),
     Node(RootPath \o <<1>>, 1, FALSE, Some(10)),
     Node(RootPath \o <<2>>, 1, TRUE, None),
     Node(RootPath \o <<2, 1>>, 2, FALSE, Some(5))}

\* The depth limits a caller configures.
DepthLimits == {None} \cup {Some(d) : d \in 0..2}

\* ------------------------------------------------------------------- state
VARIABLES
    pending,    \* walker: entries whose callback has not run yet
    chan,       \* the unbounded channel's queue
    cpc,        \* consumer thread: "recv" or "done"
    branches,   \* consumer thread: the Branches map
    root,       \* consumer thread: Option<Node>
    result,     \* the consumer thread's result: "Pending", "Ok" or an Error
    mpc,        \* main thread: position in Tree::new / traverse / fmt
    troot,      \* main thread: root after the join (Option<Node>)
    tbranches,  \* main thread: branches after the join
    tree,       \* Option<Tree> returned by Tree::new
    outcome,    \* how Tree::new ended: "Pending", "Ok", an Error or "Panic"
    output,     \* Option: the string the last call of fmt wrote
    renders,    \* how many times fmt has been called
    walked      \* the entries of the walk (never changes)

vars == <<pending, chan, cpc, branches, root, result, mpc, troot, tbranches,
          tree, outcome, output, renders, walked>>

EmptyMap == [p \in {} |-> <<>>]

Insert(map, key, value) ==
    [p \in DOMAIN map \cup {key} |-> IF p = key THEN value ELSE map[p]]

Remove(map, key) == [p \in DOMAIN map \ {key} |-> map[p]]

InitWith(entries) ==
    /\ pending = entries
    /\ chan = <<>>
    /\ cpc = "recv"
    /\ branches = EmptyMap
    /\ root = None
    /\ result = "Pending"
    /\ mpc = "walk"
    /\ troot = None
    /\ tbranches = EmptyMap
    /\ tree = None
    /\ outcome = "Pending"
    /\ output = None
    /\ renders = 0
    /\ walked = entries

\* One walker entry: Ok(entry) that Node::from turns into node, or an Err.
Entry(ok, node) == [ok |-> ok, node |-> node]

\* Every entry with children is a directory, and so is the walk root.
WellFormed(S, kind) ==
    \A p \in S : (p = <<>> \/ ChildrenOf(S, p) # {}) => kind[p].dir

EntriesOf(S, kind, base, failed) ==
    {Entry(p \notin failed,
           Node(base \o p, Len(p), kind[p].dir, kind[p].file_size)) : p \in S}

\* The kinds of the entries of the degenerate walks.
PlainKinds == {DirKind, [dir |-> FALSE, file_size |-> Some(5)]}

\* The walk root reported as a non-directory although the walker descends
\* into it (its file type is not a directory's).
NonDirRoot == [dir |-> FALSE, file_size |-> Some(0)]

Init ==
    \* a well-formed walk: every entry is delivered
    \/ \E S \in Shapes : \E kind \in [S -> Kinds] :
            /\ WellFormed(S, kind)
            /\ InitWith(EntriesOf(S, kind, RootPath, {}))
    \* a walk in which the walker reports some entries as Err
    \/ \E S \in Shapes : \E kind \in [S -> PlainKinds], failed \in SUBSET S :
            /\ WellFormed(S, kind)
            /\ failed # {}
            /\ Cardinality(failed) <= MaxFailed
            /\ \A p \in failed : kind[p] = DirKind
            /\ InitWith(EntriesOf(S, kind, RootPath, failed))
    \* a walk whose root record is not a directory
    \/ \E S \in Shapes : \E kind \in [S -> PlainKinds], base \in Bases :
            /\ WellFormed(S, kind)
            /\ InitWith(EntriesOf(S, [kind EXCEPT ![<<>>] = NonDirRoot], base, {}))
    \* the round trip scenario
    \/ InitWith({Entry(TRUE, n) : n \in RoundTripEntries})

\* ------------------------------------------------------------ the workers
\* The callback handed to walker.run (lines 105-113), run for one entry: an Err
\* entry is skipped; an Ok entry becomes a Node and is sent. Sending fails once
\* the receiver is dropped (the consumer thread has returned), and the unwrap
\* then panics in the worker, which walker.run propagates to Tree::new.
Callback(e) ==
    /\ mpc = "walk"
    /\ e \in pending
    /\ pending' = pending \ {e}
    /\ IF ~e.ok
       THEN UNCHANGED <<chan, mpc, outcome>>
       ELSE IF cpc = "done"
       THEN /\ mpc' = "panicked"
            /\ outcome' = "Panic"
            /\ UNCHANGED chan
       ELSE /\ chan' = Append(chan, e.node)
            /\ UNCHANGED <<mpc, outcome>>
    /\ UNCHANGED <<cpc, branches, root, result, troot, tbranches, tree, output,
                   renders, walked>>

\* walker.run returns once every callback has run; drop(tx) (line 115) then
\* drops the last sender.
DropTx ==
    /\ mpc = "walk"
    /\ pending = {}
    /\ mpc' = "join"
    /\ UNCHANGED <<pending, chan, cpc, branches, root, result, troot, tbranches,
                   tree, outcome, output, renders, walked>>

\* ----------------------------------------------------- the consumer thread
\* A consumer that takes every directory record for the root (no depth test).
ReceiveAnyDirRoot(brs, rt, node) ==
    LET registered ==
            IF node.dir /\ node.path \notin DOMAIN brs
            THEN Insert(brs, node.path, <<>>)
            ELSE brs
        parent == ParentPathBuf(node)
    IN IF node.dir
       THEN [branches |-> registered, root |-> Some(node), err |-> None]
       ELSE IF parent = None
       THEN [branches |-> registered, root |-> rt, err |-> Some("ExpectedParent")]
       ELSE IF Unwrap(parent) \in DOMAIN registered
       THEN [branches |-> [registered EXCEPT ![Unwrap(parent)] = Append(@, node)],
             root |-> rt, err |-> None]
       ELSE [branches |-> Insert(registered, Unwrap(parent), <<>>),
             root |-> rt, err |-> None]

\* A consumer that fails with ExpectedParent when the parent path has no entry
\* in the map.
ReceiveStrict(brs, rt, node) ==
    LET registered ==
            IF node.dir /\ node.path \notin DOMAIN brs
            THEN Insert(brs, node.path, <<>>)
            ELSE brs
        parent == ParentPathBuf(node)
    IN IF node.dir /\ node.depth = 0
       THEN [branches |-> registered, root |-> Some(node), err |-> None]
       ELSE IF parent = None \/ Unwrap(parent) \notin DOMAIN registered
       THEN [branches |-> registered, root |-> rt, err |-> Some("ExpectedParent")]
       ELSE [branches |-> [registered EXCEPT ![Unwrap(parent)] = Append(@, node)],
             root |-> rt, err |-> None]

\* A consumer that registers no entry for a parent path it does not find.
ReceiveNoInsert(brs, rt, node) ==
    LET registered ==
            IF node.dir /\ node.path \notin DOMAIN brs
            THEN Insert(brs, node.path, <<>>)
            ELSE brs
        parent == ParentPathBuf(node)
    IN IF node.dir /\ node.depth = 0
       THEN [branches |-> registered, root |-> Some(node), err |-> None]
       ELSE IF parent = None
       THEN [branches |-> registered, root |-> rt, err |-> Some("ExpectedParent")]
       ELSE IF Unwrap(parent) \in DOMAIN registered
       THEN [branches |-> [registered EXCEPT ![Unwrap(parent)] = Append(@, node)],
             root |-> rt, err |-> None]
       ELSE [branches |-> registered, root |-> rt, err |-> None]

\* A consumer that registers a directory's own path without looking for an
\* entry already there.
ReceiveOverwrite(brs, rt, node) ==
    LET registered ==
            IF node.dir THEN Insert(brs, node.path, <<>>) ELSE brs
        parent == ParentPathBuf(node)
    IN IF node.dir /\ node.depth = 0
       THEN [branches |-> registered, root |-> Some(node), err |-> None]
       ELSE IF parent = None
       THEN [branches |-> registered, root |-> rt, err |-> Some("ExpectedParent")]
       ELSE IF Unwrap(parent) \in DOMAIN registered
       THEN [branches |-> [registered EXCEPT ![Unwrap(parent)] = Append(@, node)],
             root |-> rt, err |-> None]
       ELSE [branches |-> Insert(registered, Unwrap(parent), <<>>),
             root |-> rt, err |-> None]

\* One iteration of the while-let loop (lines 71-96) on the received node:
\* the consumer's state after it, as [branches, root, err].
Receive(brs, rt, node) ==
    LET registered ==
            IF node.dir /\ node.path \notin DOMAIN brs
            THEN Insert(brs, node.path, <<>>)
            ELSE brs
        parent == ParentPathBuf(node)
    IN IF node.dir /\ node.depth = 0
       THEN [branches |-> registered, root |-> Some(node), err |-> None]
       ELSE IF parent = None
       THEN [branches |-> registered, root |-> rt, err |-> Some("ExpectedParent")]
       ELSE IF Unwrap(parent) \in DOMAIN registered
       THEN [branches |-> [registered EXCEPT ![Unwrap(parent)] = Append(@, node)],
             root |-> rt, err |-> None]
       ELSE [branches |-> Insert(registered, Unwrap(parent), <<>>),
             root |-> rt, err |-> None]

ConsumerRecv ==
    /\ cpc = "recv"
    /\ chan # <<>>
    /\ LET after == Receive(branches, root, Head(chan))
       IN /\ chan' = Tail(chan)
          /\ branches' = after.branches
          /\ root' = after.root
          /\ IF after.err = None
             THEN UNCHANGED <<cpc, result>>
             ELSE cpc' = "done" /\ result' = Unwrap(after.err)
    /\ UNCHANGED <<pending, mpc, troot, tbranches, tree, outcome, output, renders,
                   walked>>

\* A consumer that returns Ok whether or not a root was received.
RootAlwaysOk(rt) == "Ok"

\* root.ok_or(Error::MissingRoot) (line 98).
RootOrMissing(rt) == IF rt = None THEN "MissingRoot" ELSE "Ok"

\* A traverse that never drops its own sender.
SenderKept == FALSE

\* Every sender is dropped: the workers' clones when their callbacks end, the
\* original by drop(tx) (line 115) or by the unwinding of a panic.
SendersDropped == mpc # "walk"

\* recv fails once the queue is empty and every sender is dropped; the loop
\* ends and root.ok_or(MissingRoot) decides the thread's result (lines 98-100).
ConsumerClosed ==
    /\ cpc = "recv"
    /\ chan = <<>>
    /\ SendersDropped
    /\ cpc' = "done"
    /\ result' = RootOrMissing(root)
    /\ UNCHANGED <<pending, chan, branches, root, mpc, troot, tbranches, tree,
                   outcome, output, renders, walked>>

\* A traverse that takes the components as soon as a root is stashed, without
\* waiting for the consumer thread to end.
JoinEarly ==
    /\ mpc = "join"
    /\ root # None
    /\ mpc' = "assemble"
    /\ troot' = root
    /\ tbranches' = branches
    /\ UNCHANGED <<pending, chan, cpc, branches, root, result, tree, outcome,
                   output, renders, walked>>

\* tree_components.join().unwrap()? (line 117): an Error returns from traverse
\* and, through the ? of line 47, from Tree::new.
Join ==
    /\ mpc = "join"
    /\ cpc = "done"
    /\ IF result = "Ok"
       THEN /\ mpc' = "assemble"
            /\ troot' = root
            /\ tbranches' = branches
            /\ UNCHANGED outcome
       ELSE /\ mpc' = "returned"
            /\ outcome' = result
            /\ UNCHANGED <<troot, tbranches>>
    /\ UNCHANGED <<pending, chan, cpc, branches, root, result, tree, output,
                   renders, walked>>

\* ---------------------------------------------------------- the assembler
\* slice::sort_by is a stable sort: x goes behind every element that does not
\* compare Greater than it.
RECURSIVE InsertSorted(_, _, _)

\* An unstable sort: x goes in front of the elements it compares Equal to.
InsertUnstable(sorted, x, order) ==
    IF sorted = <<>> THEN <<x>>
    ELSE IF Compare(order, Head(sorted), x) # -1 THEN <<x>> \o sorted
    ELSE <<Head(sorted)>> \o InsertSorted(Tail(sorted), x, order)

InsertSorted(sorted, x, order) ==
    IF sorted = <<>> THEN <<x>>
    ELSE IF Compare(order, Head(sorted), x) = 1 THEN <<x>> \o sorted
    ELSE <<Head(sorted)>> \o InsertSorted(Tail(sorted), x, order)

RECURSIVE SortFrom(_, _, _)
SortFrom(sorted, nodes, order) ==
    IF nodes = <<>> THEN sorted
    ELSE SortFrom(InsertSorted(sorted, Head(nodes), order), Tail(nodes), order)

SortBy(nodes, order) == SortFrom(<<>>, nodes, order)

\* The comparator step of lines 149-154.
SortChildren(nodes, order) ==
    IF HasComparator(order) THEN SortBy(nodes, order) ELSE nodes

\* An assembler that overwrites the size with any total.
SetDirSizeAlways(node, dir_size) == [node EXCEPT !.file_size = Some(dir_size)]

\* Line 147: the size is overwritten only by a total greater than zero.
SetDirSize(node, dir_size) ==
    IF dir_size > 0 THEN [node EXCEPT !.file_size = Some(dir_size)] ELSE node

RECURSIVE AssembleTree(_, _, _)
RECURSIVE AssembleChildren(_, _, _)

\* The for_each of lines 136-145 over the children, threading branches:
\* [nodes, branches, dir_size].
AssembleChildren(nodes, brs, order) ==
    IF nodes = <<>> THEN [nodes |-> <<>>, branches |-> brs, dir_size |-> 0]
    ELSE LET first == IF Head(nodes).dir
                      THEN AssembleTree(Head(nodes), brs, order)
                      ELSE [node |-> Head(nodes), branches |-> brs]
             rest == AssembleChildren(Tail(nodes), first.branches, order)
         IN [nodes |-> <<first.node>> \o rest.nodes,
             branches |-> rest.branches,
             dir_size |-> UnwrapOr(first.node.file_size, 0) + rest.dir_size]

\* Tree::assemble_tree (lines 126-156): [node, branches] after the call.
AssembleTree(current_dir, brs, order) ==
    IF current_dir.path \notin DOMAIN brs
    THEN [node |-> current_dir, branches |-> brs]
    ELSE LET walk == AssembleChildren(brs[current_dir.path],
                                      Remove(brs, current_dir.path), order)
             sized == SetDirSize(current_dir, walk.dir_size)
         IN [node |-> [sized EXCEPT
                          !.children = Some(SortChildren(walk.nodes, order))],
             branches |-> walk.branches]

\* Line 119, and the Ok(root) of line 121 that new wraps into a Tree (line 49).
Assemble(order, max_depth) ==
    /\ mpc = "assemble"
    /\ LET done == AssembleTree(Unwrap(troot), tbranches, order)
       IN /\ troot' = Some(done.node)
          /\ tbranches' = done.branches
          /\ tree' = Some([max_depth |-> max_depth, order |-> order,
                           root |-> done.node])
    /\ outcome' = "Ok"
    /\ mpc' = "built"
    /\ UNCHANGED <<pending, chan, cpc, branches, root, result, output, renders,
                   walked>>

\* ------------------------------------------------------------ the renderer
\* extend_output (lines 166-168): one line, the prefix and the node.
Line(prefix, node) == [prefix |-> prefix, node |-> node.path]

\* A depth test that lets the traversal go one level too deep.
AtDepthLimitOffByOne(child, max_depth) ==
    max_depth # None /\ child.depth > Unwrap(max_depth)

\* Line 188: no descent below a child at the depth limit (None: usize::MAX).
AtDepthLimit(child, max_depth) ==
    max_depth # None /\ child.depth + 1 > Unwrap(max_depth)

RECURSIVE traverse(_, _, _)

\* A traversal that lists all the siblings before descending into any of them.
RECURSIVE traverseSiblingsFirst(_, _, _)
traverseSiblingsFirst(children, base_prefix, max_depth) ==
    IF children = <<>> THEN <<>>
    ELSE LET child == Head(children)
             last_entry == Len(children) = 1
             prefix == Append(base_prefix, IF last_entry THEN UPRT ELSE VTRT)
             new_base == Append(base_prefix,
                                IF child.dir /\ last_entry THEN SEP ELSE VT)
             below == IF ~child.dir \/ AtDepthLimit(child, max_depth)
                         \/ child.children = None
                      THEN <<>>
                      ELSE traverseSiblingsFirst(Unwrap(child.children),
                                                 new_base, max_depth)
         IN <<Line(prefix, child)>>
                \o traverseSiblingsFirst(Tail(children), base_prefix, max_depth)
                \o below

\* A traversal that hands the vertical-continuation glyph down under every
\* child, the last one included.
RECURSIVE traverseAlwaysVT(_, _, _)
traverseAlwaysVT(children, base_prefix, max_depth) ==
    IF children = <<>> THEN <<>>
    ELSE LET child == Head(children)
             last_entry == Len(children) = 1
             prefix == Append(base_prefix, IF last_entry THEN UPRT ELSE VTRT)
             new_base == Append(base_prefix, VT)
             below == IF ~child.dir \/ AtDepthLimit(child, max_depth)
                         \/ child.children = None
                      THEN <<>>
                      ELSE traverseAlwaysVT(Unwrap(child.children), new_base,
                                            max_depth)
         IN <<Line(prefix, child)>> \o below
                \o traverseAlwaysVT(Tail(children), base_prefix, max_depth)

\* The inner traverse of fmt (lines 171-206): the lines it pushes.
traverse(children, base_prefix, max_depth) ==
    IF children = <<>> THEN <<>>
    ELSE LET child == Head(children)
             last_entry == Len(children) = 1
             prefix == Append(base_prefix, IF last_entry THEN UPRT ELSE VTRT)
             new_base == Append(base_prefix,
                                IF child.dir /\ last_entry THEN SEP ELSE VT)
             below == IF ~child.dir \/ AtDepthLimit(child, max_depth)
                         \/ child.children = None
                      THEN <<>>
                      ELSE traverse(Unwrap(child.children), new_base, max_depth)
         IN <<Line(prefix, child)>> \o below
                \o traverse(Tail(children), base_prefix, max_depth)

\* Display for Tree (lines 160-214): the string written to the formatter. The
\* buffer starts empty on every call (line 163).
FmtOutput(previous, t) ==
    <<Line(<<>>, t.root)>>
        \o (IF t.root.children = None THEN <<>>
            ELSE traverse(Unwrap(t.root.children), <<>>, t.max_depth))

Fmt ==
    /\ mpc = "built"
    /\ renders < MaxRenders
    /\ renders' = renders + 1
    /\ output' = Some(FmtOutput(output, Unwrap(tree)))
    /\ UNCHANGED <<pending, chan, cpc, branches, root, result, mpc, troot,
                   tbranches, tree, outcome, walked>>

Next ==
    \/ \E e \in pending : Callback(e)
    \/ DropTx
    \/ ConsumerRecv
    \/ ConsumerClosed
    \/ Join
    \/ \E order \in Orders, max_depth \in DepthLimits : Assemble(order, max_depth)
    \/ Fmt

Spec == Init /\ [][Next]_vars

\* The walks checked under fair scheduling: every leaf a file; all entries
\* delivered, or the root's entry failed, or the root reported as a
\* non-directory without a parent path.
LeafFiles(S) ==
    [p \in S |-> IF p = <<>> \/ ChildrenOf(S, p) # {}
                 THEN DirKind
                 ELSE [dir |-> FALSE, file_size |-> Some(5)]]

FairInit ==
    \E S \in ShapesOf(MaxFairEntries) :
        \/ InitWith(EntriesOf(S, LeafFiles(S), RootPath, {}))
        \/ InitWith(EntriesOf(S, LeafFiles(S), RootPath, {<<>>}))
        \/ InitWith(EntriesOf(S, [LeafFiles(S) EXCEPT ![<<>>] = NonDirRoot],
                              <<>>, {}))

\* The threads are scheduled fairly: a worker with an entry runs its callback,
\* the consumer thread and the main thread take their next step.
FairSpec ==
    /\ FairInit
    /\ [][Next]_vars
    /\ WF_vars(\E e \in pending : Callback(e))
    /\ WF_vars(DropTx)
    /\ WF_vars(ConsumerRecv)
    /\ WF_vars(ConsumerClosed)
    /\ WF_vars(Join)
    /\ WF_vars(\E order \in Orders, max_depth \in DepthLimits :
                  Assemble(order, max_depth))

\* ------------------------------------------------------ reading the state
Range(seq) == {seq[i] : i \in 1..Len(seq)}

Children(node) == UnwrapOr(node.children, <<>>)

RECURSIVE NodesOf(_)
NodesOf(node) ==
    {node} \cup UNION {NodesOf(c) : c \in Range(Children(node))}

Built == mpc = "built"
TreeRoot == Unwrap(tree).root
TreeNodes == NodesOf(TreeRoot)

OkNodes == {e.node : e \in {x \in walked : x.ok}}

\* The walker delivers every entry, the root is a directory, and every other
\* record's parent path is the path of a directory record.
WellFormedWalk ==
    /\ \A e \in walked : e.ok
    /\ Cardinality({n \in OkNodes : n.depth = 0}) = 1
    /\ \A n \in OkNodes :
          IF n.depth = 0 THEN n.dir
          ELSE \E d \in OkNodes : d.dir /\ ParentPathBuf(n) = Some(d.path)

\* The consumer has taken e's record off the channel.
Received(e) == e.ok /\ e \notin pending /\ e.node \notin Range(chan)

\* ------------------------------------------------------------------ claims
\* C1: for a well-formed entry set the built tree holds every record sent,
\* each node's children being the records whose parent path is the node's
\* path, whatever the order of arrival.
C1_OrderIndependentTree ==
    (Built /\ WellFormedWalk) =>
        /\ {n.path : n \in TreeNodes} = {n.path : n \in OkNodes}
        /\ \A n \in TreeNodes :
              {c.path : c \in Range(Children(n))}
                  = {m.path : m \in {x \in OkNodes :
                                        ParentPathBuf(x) = Some(n.path)}}

NodeAt(path) == CHOOSE n \in TreeNodes : n.path = path

\* C2: the round trip scenario with no comparator gives root size 15,
\* root/b size 5, root's children root/a and root/b, root/b's only child
\* root/b/c.
C2_RoundTrip ==
    (Built /\ OkNodes = RoundTripEntries /\ Unwrap(tree).order = "None") =>
        /\ TreeRoot.file_size = Some(15)
        /\ {c.path : c \in Range(Children(TreeRoot))}
               = {RootPath \o <<1>>, RootPath \o <<2>>}
        /\ Len(Children(TreeRoot)) = 2
        /\ \E b \in Range(Children(TreeRoot)) :
               /\ b.path = RootPath \o <<2>>
               /\ b.file_size = Some(5)
               /\ [i \in 1..Len(Children(b)) |-> Children(b)[i].path]
                      = <<RootPath \o <<2, 1>>>>

\* A record that is not a depth-0 directory and whose path has no parent.
Parentless(node) ==
    ParentPathBuf(node) = None /\ ~(node.dir /\ node.depth = 0)

\* A record whose parent directory's record is never delivered.
Orphan(node) ==
    /\ ParentPathBuf(node) # None
    /\ node.depth > 0
    /\ \A d \in OkNodes : Some(d.path) # ParentPathBuf(node)

\* C3 as stated, on the walks that deliver their root: once the consumer has
\* received an orphan, aggregation has failed with ExpectedParent and Tree::new
\* never builds a tree.
C3_OrphanFails ==
    (/\ cpc = "done"
     /\ \E n \in OkNodes : n.depth = 0 /\ n.dir
     /\ \E e \in walked : Received(e) /\ Orphan(e.node)) =>
        result = "ExpectedParent" /\ tree = None

\* C3 amended: aggregation fails with ExpectedParent exactly when the consumer
\* has received a record whose parent path cannot be computed, and then no
\* tree is built; an orphan alone raises no error.
C3_ExpectedParentIffNoParentPath ==
    /\ result = "ExpectedParent" <=>
           \E e \in walked : Received(e) /\ Parentless(e.node)
    /\ result = "ExpectedParent" => tree = None /\ mpc \notin {"assemble", "built"}

C3_Witness ==
    /\ result = "ExpectedParent"
    /\ mpc = "returned"
    /\ outcome = "ExpectedParent"

\* An orphan received by a build that nevertheless produced a tree.
C3_OrphanBuilt ==
    Built /\ \E e \in walked : Received(e) /\ Orphan(e.node)

\* C4: when no depth-0 record is ever delivered, aggregation ends with
\* MissingRoot, Tree::new returns MissingRoot and assemble_tree never runs.
NoRootDelivered == \A n \in OkNodes : n.depth >= 1

C4_MissingRoot ==
    NoRootDelivered =>
        /\ cpc = "done" => result = "MissingRoot"
        /\ mpc \in {"walk", "join", "returned"}
        /\ mpc = "returned" => outcome = "MissingRoot"
        /\ troot = None /\ tree = None

C4_Witness ==
    /\ NoRootDelivered
    /\ OkNodes # {}
    /\ mpc = "returned"
    /\ outcome = "MissingRoot"

\* The depth of the node a rendered line shows.
LineDepth(line) == Len(line.node) - Len(TreeRoot.path)

\* C5: with depth limit D no rendered line shows a node deeper than D, and
\* every node of the tree at depth D or above has its line.
C5_DepthLimit ==
    (Built /\ output # None /\ Unwrap(tree).max_depth # None) =>
        LET D == Unwrap(Unwrap(tree).max_depth)
            lines == Range(Unwrap(output))
        IN /\ \A l \in lines : LineDepth(l) <= D
           /\ \A n \in TreeNodes :
                 n.depth <= D => \E l \in lines : l.node = n.path

RECURSIVE SumSizes(_)
SumSizes(nodes) ==
    IF nodes = <<>> THEN 0
    ELSE UnwrapOr(Head(nodes).file_size, 0) + SumSizes(Tail(nodes))

\* The size of the record with this path as the walker sent it.
SentSize(path) == (CHOOSE n \in OkNodes : n.path = path).file_size

\* C6: after assembly a directory's size is the sum of its children's
\* resolved sizes when that sum is positive, and its size as sent otherwise.
C6_DirSizes ==
    Built =>
        \A n \in TreeNodes :
            n.dir =>
                IF SumSizes(Children(n)) > 0
                THEN n.file_size = Some(SumSizes(Children(n)))
                ELSE n.file_size = SentSize(n.path)

C6_Witness ==
    /\ Built
    /\ \E n \in TreeNodes : n.dir /\ SumSizes(Children(n)) > 0
    /\ \E n \in TreeNodes : n.dir /\ Children(n) # <<>> /\ SumSizes(Children(n)) = 0

\* C7: once aggregation has failed, Tree::new ends by returning that Error;
\* assemble_tree never runs and no tree is produced.
C7_ErrorReturned ==
    result \in {"ExpectedParent", "MissingRoot"} =>
        /\ tree = None
        /\ mpc \notin {"assemble", "built"}
        /\ mpc \in {"returned", "panicked"} => outcome = result

\* Where a path occurs in the child lists of the tree.
Occurrences(path) ==
    {<<n.path, i>> : <<n, i>> \in
        {x \in TreeNodes \X (1..MaxEntries) :
            x[2] <= Len(Children(x[1])) /\ Children(x[1])[x[2]].path = path}}

\* C8: in a tree built from a well-formed entry set the root is the only
\* node of depth 0 and is in no child list; every other node is in exactly
\* one child list, that of the directory at its parent path.
C8_OneRootOneParent ==
    (Built /\ WellFormedWalk) =>
        /\ {n \in TreeNodes : n.depth = 0} = {TreeRoot}
        /\ Occurrences(TreeRoot.path) = {}
        /\ \A n \in TreeNodes \ {TreeRoot} :
              /\ Cardinality(Occurrences(n.path)) = 1
              /\ \A o \in Occurrences(n.path) :
                    /\ Some(o[1]) = ParentPathBuf(n)
                    /\ \E d \in TreeNodes : d.dir /\ d.path = o[1]

C8_Witness ==
    /\ Built
    /\ WellFormedWalk
    /\ Cardinality(TreeNodes) >= 3
    /\ \E n \in TreeNodes : n.depth = 2

Paths(nodes) == [i \in 1..Len(nodes) |-> nodes[i].path]

\* The position of a path in a list of nodes.
Pos(nodes, path) == CHOOSE i \in 1..Len(nodes) : nodes[i].path = path

\* C9: every child list holds the records drained from the map for its
\* directory; with a comparator it is ordered by the comparator as applied to
\* the assembled children, equal ones in arrival order; without one it is in
\* arrival order.
C9_SortedStable ==
    Built =>
        \A n \in TreeNodes :
            n.children # None =>
                LET list == Children(n)
                    drained == branches[n.path]
                    order == Unwrap(tree).order
                IN /\ Len(list) = Len(drained)
                   /\ Range(Paths(list)) = Range(Paths(drained))
                   /\ ~HasComparator(order) => Paths(list) = Paths(drained)
                   /\ HasComparator(order) =>
                         \A i, j \in 1..Len(list) :
                            i < j =>
                               /\ Compare(order, list[i], list[j]) # 1
                               /\ Compare(order, list[i], list[j]) = 0 =>
                                     Pos(drained, list[i].path)
                                         < Pos(drained, list[j].path)

\* A directory sized during assembly sorted in front of a sibling that had
\* arrived before it.
C9_Witness ==
    /\ Built
    /\ Unwrap(tree).order = "Size"
    /\ \E n \in TreeNodes :
          \E i, j \in 1..Len(Children(n)) :
             /\ i < j
             /\ Children(n)[i].dir
             /\ Children(n)[i].file_size # None
             /\ Pos(branches[n.path], Children(n)[i].path)
                    > Pos(branches[n.path], Children(n)[j].path)

\* The path of the parent of the node at path.
ParentOf(path) == SubSeq(path, 1, Len(path) - 1)

\* The place of the tree's node at path in the child list that holds it.
Place(path) == Pos(Children(NodeAt(ParentOf(path))), path)

\* The node at path closes its parent's child list.
IsLast(path) == Place(path) = Len(Children(NodeAt(ParentOf(path))))

\* p comes before q in the depth-first pre-order of the tree: p is an ancestor
\* of q, or where their paths part p's side is earlier in the child list.
PreOrderBefore(p, q) ==
    /\ p # q
    /\ \/ Len(p) < Len(q) /\ SubSeq(q, 1, Len(p)) = p
       \/ \E d \in (Len(TreeRoot.path) + 1)..Len(p) :
             /\ d <= Len(q)
             /\ SubSeq(p, 1, d - 1) = SubSeq(q, 1, d - 1)
             /\ p[d] # q[d]
             /\ Place(SubSeq(p, 1, d)) < Place(SubSeq(q, 1, d))

\* The prefix the claim gives the line of the non-root node at path: a glyph
\* for each proper non-root ancestor, then the node's own connector.
ExpectedPrefix(path) ==
    LET base == Len(TreeRoot.path)
        n == Len(path) - base
    IN [i \in 1..n |->
           IF i < n
           THEN IF IsLast(SubSeq(path, 1, base + i)) THEN SEP ELSE VT
           ELSE IF IsLast(path) THEN UPRT ELSE VTRT]

\* fmt shows the node at path: below the root's children it descends only
\* through directories above the depth limit.
Visible(path) ==
    LET t == Unwrap(tree)
    IN \A i \in (Len(TreeRoot.path) + 1)..(Len(path) - 1) :
           \/ t.max_depth = None
           \/ NodeAt(SubSeq(path, 1, i)).depth < Unwrap(t.max_depth)

\* lines is the text the tree and its depth limit determine: the root's line
\* with no prefix, then a line for each visible node, each line before the
\* next in pre-order (a strict total order of the tree's paths), each with the
\* prefix its place among its siblings and its ancestors' places give it.
IsRendering(lines) ==
    LET shown == {n.path : n \in {m \in TreeNodes : Visible(m.path)}}
    IN /\ Len(lines) = Cardinality(shown)
       /\ {lines[i].node : i \in DOMAIN lines} = shown
       /\ \A i \in 1..(Len(lines) - 1) :
             PreOrderBefore(lines[i].node, lines[i + 1].node)
       /\ \A i \in DOMAIN lines :
             lines[i].prefix = IF lines[i].node = TreeRoot.path THEN <<>>
                               ELSE ExpectedPrefix(lines[i].node)

\* C10: a call of fmt leaves the tree as it is; the text it writes is the one
\* text the tree's nodes, child lists and depth limit determine, whatever the
\* arrival order that built the tree, so a later call on the unchanged tree
\* writes what the earlier call wrote.
C10_RenderPure ==
    /\ []((Built /\ output # None) => IsRendering(Unwrap(output)))
    /\ [][(mpc = "built" /\ mpc' = "built") =>
             /\ tree' = tree
             /\ troot' = troot
             /\ tbranches' = tbranches
             /\ output # None => output' = output]_vars

\* A tree with a depth limit that hides a node has been rendered twice.
C10_Witness ==
    /\ Built
    /\ renders = 2
    /\ Len(Unwrap(output)) >= 3
    /\ Len(Unwrap(output)) < Cardinality(TreeNodes)

\* The step of ConsumerRecv: the consumer takes the head of the queue.
RecvStep == cpc = "recv" /\ chan # <<>> /\ chan' = Tail(chan)

\* A record that is not stashed as the root and whose parent path exists.
Attachable(node) == ~(node.dir /\ node.depth = 0) /\ ParentPathBuf(node) # None

\* C11: a received non-root record ends in the list of its parent path: alone
\* in a new list when the map had no entry for that path, at the end of the
\* list otherwise.
C11_RecordKept ==
    [][(RecvStep /\ Attachable(Head(chan))) =>
          LET node == Head(chan)
              parent == Unwrap(ParentPathBuf(node))
          IN /\ parent \in DOMAIN branches'
             /\ branches'[parent] =
                   IF parent \in DOMAIN branches
                   THEN Append(branches[parent], node)
                   ELSE <<node>>]_vars

\* A depth-0 record that is not a directory.
RootFile(node) == node.depth = 0 /\ ~node.dir

InSomeList(node) ==
    \E k \in DOMAIN branches : node \in Range(branches[k])

\* C12: a received depth-0 file is the stashed root, is in no child list, and
\* the build fails with neither MissingRoot nor ExpectedParent.
C12_RootFileStashed ==
    \A e \in walked :
        (Received(e) /\ RootFile(e.node)) =>
            /\ root = Some(e.node)
            /\ ~InSomeList(e.node)
            /\ result \notin {"MissingRoot", "ExpectedParent"}

\* C13: while assembly or rendering runs no entry awaits its callback, the
\* queue is empty and the consumer thread has ended with Ok; the consumer's
\* map and root change only in a receive step of the aggregation, and the
\* joined map changes only in the main thread's join and assembly, after the
\* consumer has ended.
C13_Phases ==
    /\ [](mpc \in {"assemble", "built"} =>
             /\ pending = {}
             /\ chan = <<>>
             /\ cpc = "done"
             /\ result = "Ok")
    /\ [][(branches' # branches \/ root' # root) =>
             RecvStep /\ mpc \in {"walk", "join"}]_vars
    /\ [][(tbranches' # tbranches \/ troot' # troot) =>
             /\ mpc \in {"join", "assemble"}
             /\ cpc = "done"
             /\ branches' = branches]_vars

C13_Witness ==
    /\ Built
    /\ renders >= 1
    /\ Cardinality(TreeNodes) >= 3
    /\ DOMAIN tbranches # DOMAIN branches

\* C14: under fair scheduling the walk ends, and once walker.run has returned
\* the consumer leaves its loop and the join returns, so that Tree::new ends;
\* a consumer that left its loop on the closed channel has received every
\* queued record.
C14_Terminates ==
    /\ (mpc = "walk") ~> (mpc # "walk")
    /\ (mpc = "join") ~> (cpc = "done" /\ mpc \in {"returned", "built"})
    /\ [](result \in {"Ok", "MissingRoot"} => chan = <<>> /\ pending = {})

C14_Witness ==
    /\ cpc = "done"
    /\ mpc \in {"returned", "built"}
    /\ result \in {"Ok", "MissingRoot"}
    /\ Cardinality(OkNodes) >= 3

\* C15: when aggregation has ended with Ok, the path of every received
\* directory record and the parent path of every received record that is not
\* the stashed root are keys of the consumer's map.
C15_KeysRegistered ==
    result = "Ok" =>
        \A e \in walked :
            e.ok =>
                /\ Received(e)
                /\ e.node.dir => e.node.path \in DOMAIN branches
                /\ Attachable(e.node) =>
                      Unwrap(ParentPathBuf(e.node)) \in DOMAIN branches

\* An aggregation that ended with Ok with a key that only a child's arrival
\* registered: the parent's own record was never delivered.
C15_Witness ==
    /\ result = "Ok"
    /\ \E e \in walked :
          /\ e.ok
          /\ Orphan(e.node)
          /\ Unwrap(ParentPathBuf(e.node)) \in DOMAIN branches
    /\ \E e \in walked : e.ok /\ e.node.dir /\ e.node.depth > 0

\* C16: the visit of a directory node removes the entry keyed by its path and
\* the removed list becomes the node's children, so no key of a node of the
\* tree remains; and after assembling a well-formed entry set the map is empty.
C16_MapDrained ==
    Built =>
        /\ DOMAIN tbranches \subseteq DOMAIN branches
        /\ \A k \in DOMAIN tbranches : tbranches[k] = branches[k]
        /\ \A n \in TreeNodes :
              (n.dir /\ n.path \in DOMAIN branches) =>
                  /\ n.path \notin DOMAIN tbranches
                  /\ Range(Paths(Children(n))) = Range(Paths(branches[n.path]))
                  /\ Len(Children(n)) = Len(branches[n.path])
        /\ WellFormedWalk => tbranches = EmptyMap

\* C17: rendered with no depth limit, the text has one line per node of the
\* tree, the root first with an empty prefix, and the lines are in depth-first
\* pre-order with each directory's children in the order of its child list.
C17_PreOrderLines ==
    (Built /\ output # None /\ Unwrap(tree).max_depth = None) =>
        LET lines == Unwrap(output)
        IN /\ Len(lines) = Cardinality(TreeNodes)
           /\ {lines[i].node : i \in DOMAIN lines} = {n.path : n \in TreeNodes}
           /\ lines[1] = Line(<<>>, TreeRoot)
           /\ \A i, j \in DOMAIN lines :
                 i < j => PreOrderBefore(lines[i].node, lines[j].node)

\* A rendering without a depth limit of a tree where a directory that is not
\* the last of its siblings has a child.
C17_Witness ==
    /\ Built /\ output # None /\ Unwrap(tree).max_depth = None
    /\ Len(Unwrap(output)) >= 4
    /\ \E n \in TreeNodes :
          /\ n # TreeRoot
          /\ Children(n) # <<>>
          /\ ~IsLast(n.path)

\* C18: the prefix of every line but the root's ends with the corner glyph for
\* a last child and the branch glyph otherwise, after blank padding for each
\* ancestor that was a last child and the vertical glyph for each that was not.
C18_PrefixGlyphs ==
    (Built /\ output # None) =>
        \A i \in DOMAIN Unwrap(output) :
            LET line == Unwrap(output)[i]
            IN line.node # TreeRoot.path =>
                   line.prefix = ExpectedPrefix(line.node)

\* A rendering with a branch line, a corner line and a line below a last child.
C18_Witness ==
    /\ Built /\ output # None
    /\ \E l \in Range(Unwrap(output)) : l.prefix = <<VTRT>>
    /\ \E l \in Range(Unwrap(output)) : l.prefix = <<UPRT>>
    /\ \E l \in Range(Unwrap(output)) : l.prefix = <<SEP, UPRT>>

\* C19: a receive of a directory record leaves the list of an entry already
\* there for the directory's own path as it was, and leaves every other
\* entry's list as it was but for the parent's, which the record is appended to.
C19_OwnEntryKept ==
    [][(RecvStep /\ Head(chan).dir) =>
          LET node == Head(chan)
          IN \A k \in DOMAIN branches :
                (k = node.path \/ Some(k) # ParentPathBuf(node)
                    \/ (node.dir /\ node.depth = 0)) =>
                   /\ k \in DOMAIN branches'
                   /\ branches'[k] = branches[k]]_vars

\* A directory's record has been received after two of its children: the first
\* created its entry, the second is in the entry's list.
C19_Witness ==
    \E d \in walked :
        /\ Received(d)
        /\ d.node.dir
        /\ d.node.depth > 0
        /\ d.node.path \in DOMAIN branches
        /\ branches[d.node.path] # <<>>
        /\ \E c \in walked :
              /\ Received(c)
              /\ ParentPathBuf(c.node) = Some(d.node.path)
              /\ c.node \notin Range(branches[d.node.path])

====
